---------------------------- MODULE Spec2Model ----------------------------
(***************************************************************************)
(* EndoReels API (src/main.py): a FastAPI application with a permissive    *)
(* CORSMiddleware and three GET routes, served by uvicorn.                 *)
(*                                                                         *)
(* A request is [method, path, headers].  A path is the sequence of its    *)
(* segments, one per "/": "/" is <<"">>, "/health" is <<"health">>,        *)
(* "/health/" is <<"health", "">>.  Header sets are sets of <<name,        *)
(* value>> pairs with lower-case names.  A JSON object is the set of its   *)
(* <<key, value>> members.                                                 *)
(***************************************************************************)
EXTENDS Naturals, Sequences, FiniteSets

VARIABLES
    dotenv,     \* the local configuration file load_dotenv() looks for
    globals,    \* module state of main.py: os.environ and the app object
    tasks       \* one logical task per connection slot

vars == <<dotenv, globals, tasks>>

\* Number of connections served concurrently.
MaxTasks == 2

Tasks == 1..MaxTasks

\* Python's None, also the value of a header that is absent.
None == "None"

---------------------------------------------------------------------------
(* Header sets *)

Has(headers, name) == \E h \in headers : h[1] = name

Get(headers, name) ==
    IF Has(headers, name) THEN (CHOOSE h \in headers : h[1] = name)[2] ELSE None

\* headers[name] = value
Put(headers, name, value) ==
    {h \in headers : h[1] # name} \cup {<<name, value>>}

\* headers.update(more)
Update(headers, more) ==
    {h \in headers : ~Has(more, h[1])} \cup more

Hdr(name, value) == IF value = None THEN {} ELSE {<<name, value>>}

---------------------------------------------------------------------------
(* Startup: load_dotenv() *)

\* The environment the process is started with.
ProcessEnv == {<<"PATH", "/usr/bin">>}

\* Configuration files the process may find: none, or a set of assignments.
DotenvFiles ==
    { [exists |-> FALSE, vars |-> {}],
      [exists |-> TRUE,  vars |-> {<<"DATABASE_URL", "postgres://db">>}],
      [exists |-> TRUE,  vars |-> {<<"PATH", "/opt/bin">>, <<"SECRET_KEY", "s3cret">>}] }

\* load_dotenv(): variables of the file are added to os.environ; a variable
\* the process already has is kept (override defaults to False).
load_dotenv(file, environ) ==
    IF file.exists
    THEN environ \cup {kv \in file.vars : ~Has(environ, kv[1])}
    ELSE environ

---------------------------------------------------------------------------
(* Responses *)

NoResponse ==
    [status |-> 0, media_type |-> None, json |-> {}, text |-> "", headers |-> {}]

JSONResponse(status, content, headers) ==
    [status |-> status, media_type |-> "application/json",
     json |-> content, text |-> "", headers |-> headers]

PlainTextResponse(text, status, headers) ==
    [status |-> status, media_type |-> "text/plain",
     json |-> {}, text |-> text, headers |-> headers]

HTMLResponse(text) ==
    [status |-> 200, media_type |-> "text/html",
     json |-> {}, text |-> text, headers |-> {}]

\* Paths are printed back for the Location header of a redirect.
RECURSIVE PathString(_)
PathString(path) ==
    IF path = <<>> THEN "" ELSE "/" \o Head(path) \o PathString(Tail(path))

RedirectResponse(path) ==
    [status |-> 307, media_type |-> None, json |-> {}, text |-> "",
     headers |-> {<<"location", PathString(path)>>}]

---------------------------------------------------------------------------
(* The route handlers of main.py.  A handler runs against the module state *)
(* g and yields the returned object together with the module state it      *)
(* leaves behind.                                                          *)

root_other_message(g) ==
    [content |-> {<<"message", "EndoReels API">>}, g |-> g]

\* A handler that keeps a flag in os.environ and answers by it.
root_counting(g) ==
    [content |-> {<<"message",
                    IF Has(g.environ, "STARTED") THEN "EndoReels API is running!"
                    ELSE "EndoReels API is starting">>},
     g |-> [g EXCEPT !.environ = Put(g.environ, "STARTED", "1")]]

root(g) ==
    [content |-> {<<"message", "EndoReels API is running!">>}, g |-> g]

health_check_by_env(g) ==
    [content |-> {<<"status",
                    IF Has(g.environ, "DATABASE_URL") THEN "healthy" ELSE "degraded">>},
     g |-> g]

\* A handler that marks the process busy while it is being probed.
health_check_shared(g) ==
    [content |-> {<<"status", IF Has(g.environ, "BUSY") THEN "busy" ELSE "healthy">>},
     g |-> [g EXCEPT !.environ = Put(g.environ, "BUSY", "1")]]

health_check(g) ==
    [content |-> {<<"status", "healthy">>}, g |-> g]

test_endpoint_no_status(g) ==
    [content |-> {<<"message", "Test endpoint working">>}, g |-> g]

\* A handler that reports a variable of the environment.
test_endpoint_env(g) ==
    [content |-> {<<"message", "Test endpoint working">>,
                  <<"status", IF Has(g.environ, "SECRET_KEY") THEN "configured"
                              ELSE "success">>},
     g |-> g]

test_endpoint(g) ==
    [content |-> {<<"message", "Test endpoint working">>, <<"status", "success">>},
     g |-> g]

---------------------------------------------------------------------------
(* app = FastAPI(title="EndoReels API", version="1.0.0") and its routes *)

Route(path, methods, endpoint) ==
    [path |-> path, methods |-> methods, endpoint |-> endpoint]

\* FastAPI() with default openapi_url, docs_url and redoc_url registers the
\* documentation routes before any route of the application.
DocsRoutes ==
    << Route(<<"openapi.json">>, {"GET", "HEAD"}, "openapi"),
       Route(<<"docs">>, {"GET", "HEAD"}, "swagger_ui_html"),
       Route(<<"docs", "oauth2-redirect">>, {"GET", "HEAD"}, "swagger_ui_redirect"),
       Route(<<"redoc">>, {"GET", "HEAD"}, "redoc_html") >>

\* The route declared for more methods than GET.
root_route_get_post == Route(<<"">>, {"GET", "POST"}, "root")

\* @app.get("/")
root_route == Route(<<"">>, {"GET"}, "root")

\* The route declared under another path.
health_route_other_path == Route(<<"missing">>, {"GET"}, "health_check")

\* @app.get("/health")
health_route == Route(<<"health">>, {"GET"}, "health_check")

\* @app.get("/api/v1/test")
test_route == Route(<<"api", "v1", "test">>, {"GET"}, "test_endpoint")

UserRoutes == <<root_route, health_route, test_route>>

\* The three handlers of main.py, and the paths they are registered under.
UserEndpoints == {"root", "health_check", "test_endpoint"}

RegisteredPaths == {<<"">>, <<"health">>, <<"api", "v1", "test">>}

\* The policy tightened to one origin.
CorsOptions_one_origin ==
    [allow_origins     |-> <<"https://a.example">>,
     allow_credentials |-> TRUE,
     allow_methods     |-> <<"*">>,
     allow_headers     |-> <<"*">>]

\* The policy without credentials.
CorsOptions_no_credentials ==
    [allow_origins     |-> <<"*">>,
     allow_credentials |-> FALSE,
     allow_methods     |-> <<"*">>,
     allow_headers     |-> <<"*">>]

\* app.add_middleware(CORSMiddleware, ...)
CorsOptions ==
    [allow_origins     |-> <<"*">>,
     allow_credentials |-> TRUE,
     allow_methods     |-> <<"*">>,
     allow_headers     |-> <<"*">>]

\* The app object once main.py has been imported.
App == [routes |-> DocsRoutes \o UserRoutes, user_middleware |-> CorsOptions]

---------------------------------------------------------------------------
(* CORSMiddleware *)

Range(seq) == {seq[i] : i \in DOMAIN seq}

RECURSIVE Join(_)
Join(seq) ==
    IF seq = <<>> THEN ""
    ELSE IF Len(seq) = 1 THEN seq[1]
    ELSE seq[1] \o ", " \o Join(Tail(seq))

ALL_METHODS == <<"DELETE", "GET", "HEAD", "OPTIONS", "PATCH", "POST", "PUT">>

SAFELISTED_HEADERS == {"accept", "accept-language", "content-language", "content-type"}

\* "*" in allow_methods stands for ALL_METHODS.
cors_allow_methods(o) ==
    IF "*" \in Range(o.allow_methods) THEN ALL_METHODS ELSE o.allow_methods

allow_all_origins(o) == "*" \in Range(o.allow_origins)

allow_all_headers(o) == "*" \in Range(o.allow_headers)

preflight_explicit_allow_origin(o) ==
    ~allow_all_origins(o) \/ o.allow_credentials

simple_headers(o) ==
    (IF allow_all_origins(o) THEN {<<"access-control-allow-origin", "*">>} ELSE {})
    \cup (IF o.allow_credentials
          THEN {<<"access-control-allow-credentials", "true">>} ELSE {})

preflight_headers(o) ==
    (IF preflight_explicit_allow_origin(o)
     THEN {<<"vary", "Origin">>}
     ELSE {<<"access-control-allow-origin", "*">>})
    \cup {<<"access-control-allow-methods", Join(cors_allow_methods(o))>>,
          <<"access-control-max-age", "600">>}
    \cup (IF ~allow_all_headers(o)
          THEN {<<"access-control-allow-headers",
                  "Accept, Accept-Language, Content-Language, Content-Type">>}
          ELSE {})
    \cup (IF o.allow_credentials
          THEN {<<"access-control-allow-credentials", "true">>} ELSE {})

is_allowed_origin(o, origin) ==
    allow_all_origins(o) \/ origin \in Range(o.allow_origins)

\* A preflight asks for one header name, in lower case, or for none.
preflight_response(o, request_headers) ==
    LET requested_origin  == Get(request_headers, "origin")
        requested_method  == Get(request_headers, "access-control-request-method")
        requested_headers == Get(request_headers, "access-control-request-headers")
        h0 == preflight_headers(o)
        h1 == IF is_allowed_origin(o, requested_origin)
                 /\ preflight_explicit_allow_origin(o)
              THEN Put(h0, "access-control-allow-origin", requested_origin)
              ELSE h0
        h2 == IF allow_all_headers(o) /\ requested_headers # None
              THEN Put(h1, "access-control-allow-headers", requested_headers)
              ELSE h1
        failures ==
            (IF is_allowed_origin(o, requested_origin) THEN <<>> ELSE <<"origin">>)
            \o (IF requested_method \in Range(cors_allow_methods(o))
                THEN <<>> ELSE <<"method">>)
            \o (IF ~allow_all_headers(o) /\ requested_headers # None
                   /\ requested_headers \notin
                        (SAFELISTED_HEADERS \cup (Range(o.allow_headers) \ {"*"}))
                THEN <<"headers">> ELSE <<>>)
    IN  IF failures # <<>>
        THEN PlainTextResponse("Disallowed CORS " \o Join(failures), 400, h2)
        ELSE PlainTextResponse("OK", 200, h2)

add_vary_header(headers, vary) ==
    IF Has(headers, "vary")
    THEN Put(headers, "vary", Get(headers, "vary") \o ", " \o vary)
    ELSE Put(headers, "vary", vary)

allow_explicit_origin(headers, origin) ==
    add_vary_header(Put(headers, "access-control-allow-origin", origin), "Origin")

\* CORSMiddleware.send on http.response.start: the response as it leaves
\* the middleware.
cors_send(o, response, request_headers) ==
    LET headers    == Update(response.headers, simple_headers(o))
        origin     == Get(request_headers, "origin")
        has_cookie == Has(request_headers, "cookie")
    IN  [response EXCEPT !.headers =
            IF allow_all_origins(o) /\ has_cookie
            THEN allow_explicit_origin(headers, origin)
            ELSE IF ~allow_all_origins(o) /\ is_allowed_origin(o, origin)
            THEN allow_explicit_origin(headers, origin)
            ELSE headers]

\* CORSMiddleware.__call__ decides between three ways on.
is_preflight(request) ==
    /\ Has(request.headers, "origin")
    /\ request.method = "OPTIONS"
    /\ Has(request.headers, "access-control-request-method")

---------------------------------------------------------------------------
(* Routing: starlette's Router.app over app.routes, and the endpoints *)

\* The documentation endpoints FastAPI installs.
openapi(g) ==
    JSONResponse(200, {<<"openapi", "3.1.0">>, <<"title", "EndoReels API">>,
                       <<"version", "1.0.0">>}, {})

docs_html(endpoint) == HTMLResponse(endpoint)

\* The response to a request handed to `endpoint`, with the module state
\* the call leaves.  A handler's returned dict is sent as JSON with 200.
Call(endpoint, g) ==
    CASE endpoint = "root" ->
           LET out == root(g)
           IN  [resp |-> JSONResponse(200, out.content, {}), g |-> out.g]
      [] endpoint = "health_check" ->
           LET out == health_check(g)
           IN  [resp |-> JSONResponse(200, out.content, {}), g |-> out.g]
      [] endpoint = "test_endpoint" ->
           LET out == test_endpoint(g)
           IN  [resp |-> JSONResponse(200, out.content, {}), g |-> out.g]
      [] endpoint = "openapi" -> [resp |-> openapi(g), g |-> g]
      [] OTHER -> [resp |-> docs_html(endpoint), g |-> g]

EndsWithSlash(path) == path # <<>> /\ path[Len(path)] = ""

\* path.rstrip("/")
RECURSIVE RStrip(_)
RStrip(path) ==
    IF EndsWithSlash(path) THEN RStrip(SubSeq(path, 1, Len(path) - 1)) ELSE path

\* The path redirect_slashes tries when nothing matches.
ToggleSlash(path) ==
    IF EndsWithSlash(path) THEN RStrip(path) ELSE Append(path, "")

First(S) == CHOOSE i \in S : \A j \in S : i <= j

NotFound == JSONResponse(404, {<<"detail", "Not Found">>}, {})

MethodNotAllowed(route) ==
    JSONResponse(405, {<<"detail", "Method Not Allowed">>},
                 {<<"allow", Join(SelectSeq(ALL_METHODS, LAMBDA m : m \in route.methods))>>})

\* Router.app: the first route matching path and method is called; else the
\* first route matching the path alone answers 405; else a route matching
\* the path with its trailing slash toggled redirects; else 404.
Router(request, g) ==
    LET routes  == g.app.routes
        full    == {i \in DOMAIN routes : /\ routes[i].path = request.path
                                          /\ request.method \in routes[i].methods}
        partial == {i \in DOMAIN routes : /\ routes[i].path = request.path
                                          /\ request.method \notin routes[i].methods}
        other   == ToggleSlash(request.path)
    IN  IF full # {}
        THEN LET out == Call(routes[First(full)].endpoint, g)
             IN  [resp |-> out.resp, endpoint |-> routes[First(full)].endpoint,
                  g |-> out.g]
        ELSE IF partial # {}
        THEN [resp |-> MethodNotAllowed(routes[First(partial)]), endpoint |-> None,
              g |-> g]
        ELSE IF request.path # <<"">>
                /\ \E i \in DOMAIN routes : routes[i].path = other
        THEN [resp |-> RedirectResponse(other), endpoint |-> None, g |-> g]
        ELSE [resp |-> NotFound, endpoint |-> None, g |-> g]

---------------------------------------------------------------------------
(* Requests *)

Methods == {"GET", "HEAD", "POST", "OPTIONS"}

Paths ==
    { <<"">>, <<"health">>, <<"api", "v1", "test">>, <<"health", "">>,
      <<"openapi.json">>, <<"docs">>, <<"docs", "oauth2-redirect">>, <<"redoc">>,
      <<"missing">> }

Origins == {"https://a.example", "https://b.example"}

\* Values of Access-Control-Request-Method and Access-Control-Request-Headers.
RequestedMethods == {"PUT", "TRACE"}

RequestedHeaders == {"x-custom"}

Cookies == {"session=1"}

Requests ==
    { [method |-> m, path |-> p,
       headers |-> Hdr("origin", o)
                   \cup Hdr("access-control-request-method", rm)
                   \cup Hdr("access-control-request-headers", rh)
                   \cup Hdr("cookie", c)] :
        m \in Methods, p \in Paths, o \in Origins \cup {None},
        rm \in RequestedMethods \cup {None}, rh \in RequestedHeaders \cup {None},
        c \in Cookies \cup {None} }

\* The requests issued while several connections are open at once.
ConcRequests ==
    { r \in Requests :
        /\ r.method \in {"GET", "OPTIONS"}
        /\ r.path \in {<<"health">>, <<"api", "v1", "test">>, <<"missing">>}
        /\ Get(r.headers, "origin") \in {None, "https://a.example"}
        /\ Get(r.headers, "access-control-request-method")
             = (IF r.method = "OPTIONS" THEN "PUT" ELSE None)
        /\ ~Has(r.headers, "access-control-request-headers")
        /\ ~Has(r.headers, "cookie") }

NoRequest == [method |-> None, path |-> <<>>, headers |-> {}]

---------------------------------------------------------------------------
(* The server: one task per connection *)

IdleTask ==
    [pc |-> "idle", req |-> NoRequest, resp |-> NoResponse,
     endpoint |-> None, wrapped |-> FALSE]

Init ==
    /\ dotenv \in DotenvFiles
    /\ globals = [environ |-> load_dotenv(dotenv, ProcessEnv), app |-> App]
    /\ tasks = [t \in Tasks |-> IdleTask]

\* uvicorn parses a request and starts the task that calls the app.
Receive(t, r) ==
    /\ tasks[t].pc = "idle"
    /\ tasks' = [tasks EXCEPT ![t] = [IdleTask EXCEPT !.pc = "cors", !.req = r]]
    /\ UNCHANGED <<dotenv, globals>>

\* CORSMiddleware.__call__: a request without Origin goes on untouched, a
\* preflight is answered here, any other request goes on with send wrapped.
CorsCall(t) ==
    LET task == tasks[t]
        o    == globals.app.user_middleware
    IN  /\ task.pc = "cors"
        /\ \/ /\ ~Has(task.req.headers, "origin")
              /\ tasks' = [tasks EXCEPT ![t].pc = "route"]
           \/ /\ is_preflight(task.req)
              /\ tasks' = [tasks EXCEPT ![t].pc = "send",
                                        ![t].resp = preflight_response(o, task.req.headers)]
           \/ /\ Has(task.req.headers, "origin")
              /\ ~is_preflight(task.req)
              /\ tasks' = [tasks EXCEPT ![t].pc = "route", ![t].wrapped = TRUE]
        /\ UNCHANGED <<dotenv, globals>>

\* The router picks the route and the endpoint runs.
RouteCall(t) ==
    LET task == tasks[t]
        out  == Router(task.req, globals)
    IN  /\ task.pc = "route"
        /\ tasks' = [tasks EXCEPT ![t].pc = "send", ![t].resp = out.resp,
                                  ![t].endpoint = out.endpoint]
        /\ globals' = out.g
        /\ UNCHANGED dotenv

\* http.response.start goes out, through CORSMiddleware.send when wrapped.
SendStart(t) ==
    LET task == tasks[t]
    IN  /\ task.pc = "send"
        /\ tasks' = [tasks EXCEPT ![t].pc = "done",
                       ![t].resp = IF task.wrapped
                                   THEN cors_send(globals.app.user_middleware,
                                                  task.resp, task.req.headers)
                                   ELSE task.resp]
        /\ UNCHANGED <<dotenv, globals>>

\* The exchange is over and the slot takes the next connection.
Close(t) ==
    /\ tasks[t].pc = "done"
    /\ tasks' = [tasks EXCEPT ![t] = IdleTask]
    /\ UNCHANGED <<dotenv, globals>>

\* One connection at a time, any request.
Next ==
    \/ \E r \in Requests : Receive(1, r)
    \/ CorsCall(1)
    \/ RouteCall(1)
    \/ SendStart(1)
    \/ Close(1)

Spec == Init /\ [][Next]_vars

\* MaxTasks connections at once, their steps interleaved.
NextConc ==
    \E t \in Tasks :
        \/ \E r \in ConcRequests : Receive(t, r)
        \/ CorsCall(t)
        \/ RouteCall(t)
        \/ SendStart(t)
        \/ Close(t)

SpecConc == Init /\ [][NextConc]_vars

---------------------------------------------------------------------------
(* A request handled on its own *)

\* The task as it stands at stage pc when `request` is the only request the
\* server, in module state g, is handling.
AloneAt(request, pc, g) ==
    LET o       == g.app.user_middleware
        origin  == Has(request.headers, "origin")
        routed  == Router(request, g)
        wrapped == origin /\ ~is_preflight(request)
        made    == IF is_preflight(request)
                   THEN [IdleTask EXCEPT !.req = request,
                                         !.resp = preflight_response(o, request.headers)]
                   ELSE [IdleTask EXCEPT !.req = request, !.resp = routed.resp,
                                         !.endpoint = routed.endpoint,
                                         !.wrapped = wrapped]
    IN  CASE pc = "cors"  -> [IdleTask EXCEPT !.pc = "cors", !.req = request]
          [] pc = "route" -> [IdleTask EXCEPT !.pc = "route", !.req = request,
                                              !.wrapped = wrapped]
          [] pc = "send"  -> [made EXCEPT !.pc = "send"]
          [] pc = "done"  -> [made EXCEPT !.pc = "done",
                                !.resp = IF wrapped
                                         THEN cors_send(o, made.resp, request.headers)
                                         ELSE made.resp]
          [] OTHER        -> IdleTask

\* The response `request` gets from a server in module state g.
Serve(request, g) == AloneAt(request, "done", g).resp

\* The module state right after main.py has been imported.
Startup == [environ |-> load_dotenv(dotenv, ProcessEnv), app |-> App]

\* The module state after an import that found no configuration file.
StartupWithoutFile ==
    [environ |-> load_dotenv([exists |-> FALSE, vars |-> {}], ProcessEnv), app |-> App]

---------------------------------------------------------------------------
(* Properties *)

Done(t) == tasks[t].pc = "done"

Req(t) == tasks[t].req

Resp(t) == tasks[t].resp

IsJson(resp, status, content) ==
    /\ resp.status = status
    /\ resp.media_type = "application/json"
    /\ resp.json = content

\* C1: every GET request for "/" is answered 200 with exactly the JSON object
\* {"message": "EndoReels API is running!"}.
C1_RootBody ==
    \A t \in Tasks :
        Done(t) /\ Req(t).method = "GET" /\ Req(t).path = <<"">>
        => IsJson(Resp(t), 200, {<<"message", "EndoReels API is running!">>})

C1_Witness ==
    \E t \in Tasks :
        /\ Done(t) /\ Req(t).method = "GET" /\ Req(t).path = <<"">>
        /\ tasks[t].endpoint = "root"

\* C2: in every reachable state, whatever was requested before, a GET request
\* for "/health" is answered 200 with exactly {"status": "healthy"}.
C2_HealthAlwaysHealthy ==
    \A t \in Tasks :
        Done(t) /\ Req(t).method = "GET" /\ Req(t).path = <<"health">>
        => IsJson(Resp(t), 200, {<<"status", "healthy">>})

C2_Witness ==
    \E t \in Tasks :
        /\ Done(t) /\ Req(t).method = "GET" /\ Req(t).path = <<"health">>
        /\ tasks[t].endpoint = "health_check"
        /\ ~dotenv.exists

\* C3: every GET request for "/api/v1/test" is answered 200 with exactly
\* {"message": "Test endpoint working", "status": "success"}.
C3_TestBody ==
    \A t \in Tasks :
        Done(t) /\ Req(t).method = "GET" /\ Req(t).path = <<"api", "v1", "test">>
        => IsJson(Resp(t), 200, {<<"message", "Test endpoint working">>,
                                 <<"status", "success">>})

C3_Witness ==
    \E t \in Tasks :
        /\ Done(t) /\ Req(t).method = "GET" /\ Req(t).path = <<"api", "v1", "test">>
        /\ tasks[t].endpoint = "test_endpoint"

RoutePaths == {globals.app.routes[i].path : i \in DOMAIN globals.app.routes}

DocsPaths == {DocsRoutes[i].path : i \in DOMAIN DocsRoutes}

\* C4 as claimed: every request for a path other than the three registered
\* ones is answered with the default 404 and reaches none of the handlers.
C4_UnregisteredIs404 ==
    \A t \in Tasks :
        Done(t) /\ Req(t).path \notin RegisteredPaths
        => /\ IsJson(Resp(t), 404, {<<"detail", "Not Found">>})
           /\ tasks[t].endpoint \notin UserEndpoints

\* C4 amended: a request for a path other than the three registered ones
\* reaches none of the three handlers, and is answered with the default 404
\* unless it is a CORS preflight, its path is one of the documentation
\* routes, or its path is a route's path with the trailing slash toggled.
C4_UnregisteredNoHandler ==
    \A t \in Tasks :
        Done(t) /\ Req(t).path \notin RegisteredPaths
        => /\ tasks[t].endpoint \notin UserEndpoints
           /\ ( /\ ~is_preflight(Req(t))
                /\ Req(t).path \notin DocsPaths
                /\ ToggleSlash(Req(t).path) \notin RoutePaths
                => IsJson(Resp(t), 404, {<<"detail", "Not Found">>}) )

C4_Witness ==
    \E t \in Tasks :
        /\ Done(t) /\ Req(t).path = <<"missing">> /\ ~is_preflight(Req(t))
        /\ Resp(t).status = 404

AllowsOrigin(resp, origin) ==
    Get(resp.headers, "access-control-allow-origin") \in {"*", origin} \ {None}

\* C5 as claimed: every response carries a header allowing any origin,
\* whether or not the request has an Origin header.
C5_EveryResponseAllowsOrigin ==
    \A t \in Tasks :
        Done(t) => Has(Resp(t).headers, "access-control-allow-origin")

\* C5 amended: every response to a request that has an Origin header allows
\* that origin, by "*" or by naming it; a response to a request without one
\* carries no such header.
C5_OriginRequestsAllowed ==
    \A t \in Tasks :
        Done(t)
        => IF Has(Req(t).headers, "origin")
           THEN AllowsOrigin(Resp(t), Get(Req(t).headers, "origin"))
           ELSE ~Has(Resp(t).headers, "access-control-allow-origin")

C5_Witness ==
    \E t \in Tasks :
        /\ Done(t) /\ Get(Req(t).headers, "origin") = "https://b.example"
        /\ Resp(t).status = 404
        /\ AllowsOrigin(Resp(t), "https://b.example")

C7_NonGetIs405 ==
    \A t \in Tasks :
        Done(t) /\ Req(t).path \in RegisteredPaths /\ Req(t).method # "GET"
        => /\ IsJson(Resp(t), 405, {<<"detail", "Method Not Allowed">>})
           /\ tasks[t].endpoint = None

\* C7 amended: a request for a registered path with a method other than GET
\* never reaches the handler; it is answered 405, unless it is a CORS
\* preflight (OPTIONS with Origin and Access-Control-Request-Method), which
\* the CORS layer answers itself with 200 or 400.
C7_NonGetNoHandler ==
    \A t \in Tasks :
        Done(t) /\ Req(t).path \in RegisteredPaths /\ Req(t).method # "GET"
        => /\ tasks[t].endpoint = None
           /\ ( ~is_preflight(Req(t))
                => IsJson(Resp(t), 405, {<<"detail", "Method Not Allowed">>}) )
           /\ ( is_preflight(Req(t))
                => Resp(t).media_type = "text/plain" /\ Resp(t).status \in {200, 400} )

C7_Witness ==
    \E t \in Tasks :
        /\ Done(t) /\ Req(t).path = <<"health">> /\ Req(t).method = "OPTIONS"
        /\ ~is_preflight(Req(t)) /\ Has(Req(t).headers, "origin")
        /\ Resp(t).status = 405

Approved(t) ==
    /\ Resp(t).status = 200
    /\ Resp(t).text = "OK"
    /\ Get(Resp(t).headers, "access-control-allow-origin") = Get(Req(t).headers, "origin")
    /\ Get(Resp(t).headers, "access-control-allow-credentials") = "true"
    /\ ( Has(Req(t).headers, "access-control-request-headers")
         => Get(Resp(t).headers, "access-control-allow-headers")
              = Get(Req(t).headers, "access-control-request-headers") )

\* C8 as claimed: a preflight is approved, with credentials allowed, for
\* every origin, every requested method and every requested header.
C8_EveryPreflightApproved ==
    \A t \in Tasks : Done(t) /\ is_preflight(Req(t)) => Approved(t)

\* C8 amended: a preflight is approved, with credentials allowed, for every
\* origin, every requested header and every requested method among DELETE,
\* GET, HEAD, OPTIONS, PATCH, POST and PUT; one that asks for another method
\* is rejected with 400 "Disallowed CORS method".
C8_StandardPreflightApproved ==
    \A t \in Tasks :
        Done(t) /\ is_preflight(Req(t))
        => IF Get(Req(t).headers, "access-control-request-method") \in Range(ALL_METHODS)
           THEN Approved(t)
           ELSE Resp(t).status = 400 /\ Resp(t).text = "Disallowed CORS method"

C8_Witness ==
    \E t \in Tasks :
        /\ Done(t) /\ is_preflight(Req(t))
        /\ Get(Req(t).headers, "access-control-request-method") = "PUT"
        /\ Has(Req(t).headers, "access-control-request-headers")
        /\ Resp(t).status = 200

C10_EnvironmentNotConsumed ==
    \A t \in Tasks :
        Done(t)
        => LET ref == Serve(Req(t), StartupWithoutFile)
           IN  /\ Resp(t).status = ref.status
               /\ Resp(t).media_type = ref.media_type
               /\ Resp(t).json = ref.json
               /\ Resp(t).text = ref.text

C10_Witness ==
    \E t \in Tasks :
        /\ Done(t) /\ tasks[t].endpoint = "test_endpoint"
        /\ Has(globals.environ, "SECRET_KEY")

===========================================================================
